---- MODULE Spec2Model ----
(***************************************************************************)
(* Model of the WebsiteCreator command-line runner                         *)
(* (website_creator/main.py) and of the task pipeline it drives            *)
(* (website_creator/crew.py).                                              *)
(*                                                                         *)
(* Strings are sequences of one-character strings, so that str.strip()    *)
(* and str.replace("\r\n", "\n") are computed and not assumed.            *)
(* Optional values (argparse leaves an absent option at None) are records *)
(* [isNone, val].                                                          *)
(***************************************************************************)
EXTENDS Integers, Sequences, FiniteSets, TLC

VARIABLES
    args,            \* argparse.Namespace: customer_request, website_name, no_prompt
    stdin,           \* sys.stdin: [isatty, data]
    promptInput,     \* what input("> ") yields: [kind, text]
    config,          \* what CrewBase made of the YAML files
    pc,              \* position in main()
    customer_request,\* main()'s local of that name
    stdinRead,       \* sys.stdin.read() has been called
    prompted,        \* _ask_customer_request() has been called
    dirExists,       \* the directory artifacts/ exists
    dirCreated,      \* this run created the directory artifacts/
    mainEnsured,     \* main() has run _ensure_artifacts_dir()
    wcBuilt,         \* WebsiteCreator() has returned
    kickoffInputs,   \* <<>> or <<inputs>>: what run() handed to kickoff
    taskState,       \* ExecutionState: task id -> state
    retries,         \* task id -> re-executions so far
    valRetries,      \* task id -> re-executions caused by a validation failure
    execCount,       \* task id -> executions started
    started,         \* the tasks in the order they were started
    faults,          \* failed executions in this run (bounded by MaxFaults)
    failedTask,      \* <<>> or <<t>>: the first task that ended Failed
    artifacts,       \* the per-task output files written
    badWrite,        \* a file was written while artifacts/ did not exist
    error,           \* <<>> or <<message>>: the exception in flight / caught
    summaryWrites,   \* the payloads _persist_run_summary wrote, in order
    stdout,          \* what main() printed on success
    exitCode,        \* <<>> or <<n>>: main()'s return value
    raised           \* the exception that left main(), "none" otherwise

vars == <<args, stdin, promptInput, config, pc, customer_request, stdinRead,
          prompted, dirExists, dirCreated, mainEnsured, wcBuilt, kickoffInputs,
          taskState, retries, valRetries, execCount, started, faults,
          failedTask, artifacts,
          badWrite, error, summaryWrites, stdout, exitCode, raised>>

(***************************************************************************)
(* Bounds of the model                                                     *)
(***************************************************************************)
\* failed task executions the environment produces in one run
MaxFaults == 4
\* longest text given with -r or typed at the prompt
MaxText == 2
\* longest text piped on stdin
MaxPiped == 3

(***************************************************************************)
(* Python values                                                           *)
(***************************************************************************)
None == [isNone |-> TRUE, val |-> <<>>]
Some(s) == [isNone |-> FALSE, val |-> s]

\* bool(x) of an optional string: None and "" are falsy
Truthy(o) == ~o.isNone /\ o.val # <<>>

\* x or default
OrDefault(o, d) == IF Truthy(o) THEN o.val ELSE d

IsSpace(c) == c \in {" ", "\t", "\n", "\r"}

RECURSIVE lstrip(_)
lstrip(s) == IF s # <<>> /\ IsSpace(Head(s)) THEN lstrip(Tail(s)) ELSE s

RECURSIVE rstrip(_)
rstrip(s) ==
    IF s # <<>> /\ IsSpace(s[Len(s)]) THEN rstrip(SubSeq(s, 1, Len(s) - 1)) ELSE s

\* str.strip()
strip(s) == rstrip(lstrip(s))

\* str.replace("\r\n", "\n")
RECURSIVE replace_crlf(_)
replace_crlf(s) ==
    IF s = <<>> THEN <<>>
    ELSE IF Len(s) >= 2 /\ s[1] = "\r" /\ s[2] = "\n"
         THEN <<"\n">> \o replace_crlf(SubSeq(s, 3, Len(s)))
         ELSE <<Head(s)>> \o replace_crlf(Tail(s))

\* the texts of at most n characters over an alphabet
RECURSIVE TextsUpTo(_, _)
TextsUpTo(n, chars) ==
    IF n = 0 THEN {<<>>}
    ELSE TextsUpTo(n - 1, chars)
         \cup {Append(s, c) : s \in {t \in TextsUpTo(n - 1, chars) : Len(t) = n - 1},
                              c \in chars}

(***************************************************************************)
(* Program constants                                                       *)
(***************************************************************************)
EXIT_OK == 0
EXIT_FAILURE == 1
EXIT_NO_INPUT == 2
EXIT_INTERRUPT == 130

PLACEHOLDER_NAME == <<"Generated Website">>
ARTIFACTS_DIR == "artifacts"

(***************************************************************************)
(* The declared pipeline (crew.py)                                         *)
(***************************************************************************)
\* the crew's task list, in declared order
tasks ==
    << "planner_task", "team_leader_task", "frontend_developer_task",
       "backend_developer_task", "integration_task",
       "repository_management_task", "testing_task", "evaluation_task" >>

TaskIds == {tasks[i] : i \in 1..Len(tasks)}

\* A context entry is <<input name, kind, target, subfield>>: kind "param" is an
\* external parameter "{target}", kind "task" is "<target>.output[.<subfield>]",
\* kind "literal" is a fixed string.
planner_task_context ==
    { <<"customer_request", "param", "customer_request", "">> }

team_leader_task_context ==
    { <<"planner_output", "task", "planner_task", "">>,
      <<"website_name", "param", "website_name", "">> }

frontend_developer_task_context ==
    { <<"planner_output", "task", "planner_task", "">>,
      <<"leader_blueprint", "task", "team_leader_task", "">>,
      <<"ui_framework", "literal", "gradio", "">> }

backend_context_forward ==
    { <<"planner_output", "task", "planner_task", "">>,
      <<"leader_blueprint", "task", "team_leader_task", "">>,
      <<"shared_classes", "task", "integration_task", "shared_classes">> }

backend_developer_task_context ==
    { <<"planner_output", "task", "planner_task", "">>,
      <<"leader_blueprint", "task", "team_leader_task", "">>,
      <<"shared_classes", "task", "frontend_developer_task", "shared_classes">> }

integration_task_context ==
    { <<"frontend_artifact", "task", "frontend_developer_task", "">>,
      <<"backend_artifact", "task", "backend_developer_task", "">>,
      <<"planner_output", "task", "planner_task", "">> }

repository_management_task_context ==
    { <<"integration_output", "task", "integration_task", "">>,
      <<"website_folder", "literal", "website", "">> }

testing_task_context ==
    { <<"features", "task", "planner_task", "features">>,
      <<"final_directory", "task", "repository_management_task", "final_directory">>,
      <<"launch_cmd", "literal", "python app.py", "">> }

evaluation_task_context ==
    { <<"customer_request", "param", "customer_request", "">>,
      <<"test_report", "task", "testing_task", "">>,
      <<"repo_summary", "task", "repository_management_task", "">> }

context(t) ==
    CASE t = "planner_task" -> planner_task_context
      [] t = "team_leader_task" -> team_leader_task_context
      [] t = "frontend_developer_task" -> frontend_developer_task_context
      [] t = "backend_developer_task" -> backend_developer_task_context
      [] t = "integration_task" -> integration_task_context
      [] t = "repository_management_task" -> repository_management_task_context
      [] t = "testing_task" -> testing_task_context
      [] t = "evaluation_task" -> evaluation_task_context

max_retry_limit_plus(t) ==
    IF t \in {"frontend_developer_task", "backend_developer_task"} THEN 4 ELSE 2

max_retry_limit(t) ==
    IF t \in {"frontend_developer_task", "backend_developer_task"} THEN 3 ELSE 2

enforce_json_schema(t) == t # "team_leader_task"

retry_on_schema_fail(t) == t # "team_leader_task"

output_file(t) ==
    CASE t = "planner_task" -> "artifacts/planner.json"
      [] t = "team_leader_task" -> "artifacts/blueprint.md"
      [] t = "frontend_developer_task" -> "artifacts/frontend.json"
      [] t = "backend_developer_task" -> "artifacts/backend.json"
      [] t = "integration_task" -> "artifacts/integration.json"
      [] t = "repository_management_task" -> "artifacts/repository.json"
      [] t = "testing_task" -> "artifacts/test_report.json"
      [] t = "evaluation_task" -> "artifacts/evaluation.json"

\* position of a task in the declared list
Index(t) == CHOOSE i \in 1..Len(tasks) : tasks[i] = t

\* the tasks whose output a task's context refers to
Deps(t) == {c[3] : c \in {e \in context(t) : e[2] = "task"}}

\* no input of the task comes from another task
AllExternal(t) == \A c \in context(t) : c[2] # "task"

RECURSIVE TransDepsN(_, _)
TransDepsN(t, n) ==
    IF n = 0 THEN {}
    ELSE Deps(t) \cup UNION {TransDepsN(d, n - 1) : d \in Deps(t) \cap TaskIds}

\* the tasks a task depends on, directly or transitively
TransDeps(t) == TransDepsN(t, Len(tasks))

(***************************************************************************)
(* Inputs                                                                  *)
(***************************************************************************)
\* CrewBase's outcome: whether agents_config / tasks_config became dicts and
\* whether every key the agent and task methods ask _get for is present
Configs ==
    { [agents_config |-> "dict", tasks_config |-> "dict", keys |-> TRUE],
      [agents_config |-> "str", tasks_config |-> "dict", keys |-> TRUE],
      [agents_config |-> "dict", tasks_config |-> "str", keys |-> TRUE],
      [agents_config |-> "dict", tasks_config |-> "dict", keys |-> FALSE] }

PromptInputs(texts) ==
    {[kind |-> "line", text |-> s] : s \in texts}
    \cup {[kind |-> "EOFError", text |-> <<>>],
          [kind |-> "KeyboardInterrupt", text |-> <<>>]}

InitWith(requests, names, stdins, prompts, configs, dirs) ==
    /\ args \in [customer_request : requests, website_name : names,
                 no_prompt : BOOLEAN]
    /\ stdin \in stdins
    /\ promptInput \in prompts
    /\ config \in configs
    /\ pc = "parse"
    /\ customer_request = <<>>
    /\ stdinRead = FALSE
    /\ prompted = FALSE
    /\ dirExists \in dirs
    /\ dirCreated = FALSE
    /\ mainEnsured = FALSE
    /\ wcBuilt = FALSE
    /\ kickoffInputs = <<>>
    /\ taskState = [t \in TaskIds |-> "Pending"]
    /\ retries = [t \in TaskIds |-> 0]
    /\ valRetries = [t \in TaskIds |-> 0]
    /\ execCount = [t \in TaskIds |-> 0]
    /\ started = <<>>
    /\ faults = 0
    /\ failedTask = <<>>
    /\ artifacts = {}
    /\ badWrite = FALSE
    /\ error = <<>>
    /\ summaryWrites = <<>>
    /\ stdout = "none"
    /\ exitCode = <<>>
    /\ raised = "none"

\* The runs of main(), started in a working directory without artifacts/; an
\* input the run never reads (the prompt and --no-prompt when -r is given) is
\* held at one value.
Init ==
    /\ InitWith({None, Some(<<"a">>)},
                {None, Some(<<>>), Some(<<"W">>)},
                {[isatty |-> TRUE, data |-> <<>>]},
                {[kind |-> "line", text |-> <<>>],
                 [kind |-> "KeyboardInterrupt", text |-> <<>>]},
                Configs,
                {FALSE})
    /\ Truthy(args.customer_request) =>
          ~args.no_prompt /\ promptInput.kind = "KeyboardInterrupt"

\* The calls of resolve_customer_request: every short flag value, piped text
\* and prompt answer.
InitResolve ==
    InitWith({None} \cup {Some(s) : s \in TextsUpTo(MaxText, {"a", " "})},
             {None},
             [isatty : BOOLEAN, data : TextsUpTo(MaxPiped, {"a", "\r", "\n"})],
             PromptInputs(TextsUpTo(MaxText, {"a", " "})),
             {CHOOSE c \in Configs :
                 c.agents_config = "dict" /\ c.tasks_config = "dict" /\ c.keys},
             {FALSE})

inputV == <<args, stdin, promptInput, config>>
schedV == <<taskState, retries, valRetries, execCount, started, faults,
            failedTask>>
fileV == <<dirExists, dirCreated, mainEnsured, artifacts, badWrite,
           summaryWrites>>
endV == <<stdout, exitCode, raised>>

(***************************************************************************)
(* main.py                                                                 *)
(***************************************************************************)
parse_args ==
    /\ pc = "parse"
    /\ pc' = "ensure"
    /\ UNCHANGED <<inputV, schedV, fileV, endV, customer_request, stdinRead,
                   prompted, wcBuilt, kickoffInputs, error>>

\* Path.mkdir(parents=True, exist_ok=True): the directory exists afterwards
mkdir(exists) == TRUE

ensure_artifacts_dir_skipped ==
    /\ pc = "ensure"
    /\ pc' = "resolve"
    /\ UNCHANGED <<inputV, schedV, fileV, endV, customer_request, stdinRead,
                   prompted, wcBuilt, kickoffInputs, error>>

\* main(): _ensure_artifacts_dir()
_ensure_artifacts_dir ==
    /\ pc = "ensure"
    /\ dirExists' = mkdir(dirExists)
    /\ dirCreated' = (dirCreated \/ ~dirExists)
    /\ mainEnsured' = TRUE
    /\ pc' = "resolve"
    /\ UNCHANGED <<inputV, schedV, endV, customer_request, stdinRead, prompted,
                   wcBuilt, kickoffInputs, error, artifacts, badWrite,
                   summaryWrites>>

_stdin_text(st) == IF ~st.isatty THEN strip(replace_crlf(st.data)) ELSE <<>>

_ask_customer_request(p) == IF p.kind = "line" THEN strip(p.text) ELSE <<>>

flag_given_unstripped(a) == Truthy(a.customer_request)

\* the condition of resolve_customer_request's first return
flag_given(a) ==
    Truthy(a.customer_request) /\ strip(a.customer_request.val) # <<>>

\* resolve_customer_request: the explicit flag
ResolveFromFlag ==
    /\ pc = "resolve"
    /\ IF flag_given(args)
       THEN customer_request' = strip(args.customer_request.val) /\ pc' = "check"
       ELSE customer_request' = customer_request /\ pc' = "stdin"
    /\ UNCHANGED <<inputV, schedV, fileV, endV, stdinRead, prompted, wcBuilt,
                   kickoffInputs, error>>

\* resolve_customer_request: piped = _stdin_text(), then the --no-prompt test
ResolveFromStdin ==
    /\ pc = "stdin"
    /\ stdinRead' = ~stdin.isatty
    /\ LET piped == _stdin_text(stdin) IN
       IF piped # <<>>
       THEN customer_request' = piped /\ pc' = "check"
       ELSE IF args.no_prompt
            THEN customer_request' = <<>> /\ pc' = "check"
            ELSE customer_request' = customer_request /\ pc' = "prompt"
    /\ UNCHANGED <<inputV, schedV, fileV, endV, prompted, wcBuilt,
                   kickoffInputs, error>>

\* resolve_customer_request: return _ask_customer_request()
ResolveFromPrompt ==
    /\ pc = "prompt"
    /\ prompted' = TRUE
    /\ customer_request' = _ask_customer_request(promptInput)
    /\ pc' = "check"
    /\ UNCHANGED <<inputV, schedV, fileV, endV, stdinRead, wcBuilt,
                   kickoffInputs, error>>

CheckRequest_without_return ==
    /\ pc = "check"
    /\ pc' = "construct"
    /\ UNCHANGED <<inputV, schedV, fileV, endV, customer_request, stdinRead,
                   prompted, wcBuilt, kickoffInputs, error>>

CheckRequest_only_under_no_prompt ==
    /\ pc = "check"
    /\ IF customer_request = <<>> /\ args.no_prompt
       THEN exitCode' = <<EXIT_NO_INPUT>> /\ pc' = "done"
       ELSE exitCode' = exitCode /\ pc' = "construct"
    /\ UNCHANGED <<inputV, schedV, fileV, stdout, raised, customer_request,
                   stdinRead, prompted, wcBuilt, kickoffInputs, error>>

\* main(): if not customer_request: ... return 2
CheckRequest ==
    /\ pc = "check"
    /\ IF customer_request = <<>>
       THEN exitCode' = <<EXIT_NO_INPUT>> /\ pc' = "done"
       ELSE exitCode' = exitCode /\ pc' = "construct"
    /\ UNCHANGED <<inputV, schedV, fileV, stdout, raised, customer_request,
                   stdinRead, prompted, wcBuilt, kickoffInputs, error>>

\* crew.py: _ensure_dir
_ensure_dir(exists) == IF ~exists THEN mkdir(exists) ELSE exists

\* main(): wc = WebsiteCreator().  A missing YAML key surfaces here when the
\* agent and task methods are evaluated on construction, and otherwise in
\* crew().
Construct ==
    /\ pc = "construct"
    /\ dirExists' = _ensure_dir(dirExists)
    /\ dirCreated' = (dirCreated \/ ~dirExists)
    /\ \/ /\ wcBuilt' = TRUE
          /\ pc' = "validate"
          /\ raised' = raised
       \/ /\ ~config.keys
          /\ wcBuilt' = wcBuilt
          /\ pc' = "raised"
          /\ raised' = "KeyError"
    /\ UNCHANGED <<inputV, schedV, stdout, exitCode, customer_request,
                   stdinRead, prompted, kickoffInputs, error, mainEnsured,
                   artifacts, badWrite, summaryWrites>>

\* main(): _validate_crewai_yaml_loaded(wc)
_validate_crewai_yaml_loaded ==
    /\ pc = "validate"
    /\ IF config.agents_config # "dict" \/ config.tasks_config # "dict"
       THEN raised' = "RuntimeError" /\ pc' = "raised"
       ELSE raised' = raised /\ pc' = "run"
    /\ UNCHANGED <<inputV, schedV, fileV, stdout, exitCode, customer_request,
                   stdinRead, prompted, wcBuilt, kickoffInputs, error>>

\* a KeyboardInterrupt delivered while main() is outside its try block
InterruptOutsideTry ==
    /\ pc \in {"construct", "validate"}
    /\ raised' = "KeyboardInterrupt"
    /\ pc' = "raised"
    /\ UNCHANGED <<inputV, schedV, fileV, stdout, exitCode, customer_request,
                   stdinRead, prompted, wcBuilt, kickoffInputs, error>>

(***************************************************************************)
(* WebsiteCreator.run and the pipeline run it starts                       *)
(***************************************************************************)
run_inputs_raw_name(cr, wn) ==
    [customer_request |-> cr, website_name |-> wn.val]

\* run(): the inputs handed to kickoff
run_inputs(cr, wn) ==
    [customer_request |-> cr, website_name |-> OrDefault(wn, PLACEHOLDER_NAME)]

\* ExecutionState at initialization: Ready when no input comes from a task
InitialState == [t \in TaskIds |-> IF AllExternal(t) THEN "Ready" ELSE "Pending"]

\* main(): result = wc.run(...), up to the start of the pipeline.  crew()
\* builds the agents and tasks; a YAML key still missing raises KeyError here,
\* inside the try block.
RunCall ==
    /\ pc = "run"
    /\ kickoffInputs' = <<run_inputs(customer_request, args.website_name)>>
    /\ IF ~config.keys
       THEN /\ error' = <<"KeyError">>
            /\ pc' = "except"
            /\ taskState' = taskState
       ELSE /\ error' = error
            /\ pc' = "kickoff"
            /\ taskState' = InitialState
    /\ UNCHANGED <<inputV, fileV, endV, customer_request, stdinRead, prompted,
                   wcBuilt, retries, valRetries, execCount, started, faults,
                   failedTask>>

Running == {t \in TaskIds : taskState[t] = "Running"}
Ready == {t \in TaskIds : taskState[t] = "Ready"}

\* the Ready task that comes first in declared order
NextReady == CHOOSE t \in Ready : \A u \in Ready : Index(t) <= Index(u)

\* step 3a: start the lowest-declaration-order Ready task
StartTask ==
    /\ pc = "kickoff"
    /\ Running = {}
    /\ Ready # {}
    /\ taskState' = [taskState EXCEPT ![NextReady] = "Running"]
    /\ execCount' = [execCount EXCEPT ![NextReady] = @ + 1]
    /\ started' = Append(started, NextReady)
    /\ UNCHANGED <<inputV, fileV, endV, pc, customer_request, stdinRead,
                   prompted, wcBuilt, kickoffInputs, error, retries,
                   valRetries, faults, failedTask>>

\* step 3d: the dependents whose dependencies have now all Succeeded
Promote(ts, t) ==
    [u \in TaskIds |->
        IF /\ ts[u] = "Pending"
           /\ t \in Deps(u)
           /\ \A d \in Deps(u) : ts[d] = "Succeeded"
        THEN "Ready" ELSE ts[u]]

\* steps 3c, 3d: the running task produces an acceptable output, which goes
\* to its output file
TaskSucceeds ==
    /\ pc = "kickoff"
    /\ \E t \in Running :
          /\ taskState' = Promote([taskState EXCEPT ![t] = "Succeeded"], t)
          /\ artifacts' = artifacts \cup {output_file(t)}
          /\ badWrite' = (badWrite \/ ~dirExists)
    /\ UNCHANGED <<inputV, endV, pc, customer_request, stdinRead, prompted,
                   wcBuilt, kickoffInputs, error, retries, valRetries,
                   execCount, started, faults, failedTask, dirExists,
                   dirCreated, mainEnsured, summaryWrites>>

\* step 3e: the task ends Failed and its error is the run's error
GiveUp(t, msg) ==
    /\ taskState' = [taskState EXCEPT ![t] = "Failed"]
    /\ failedTask' = IF failedTask = <<>> THEN <<t>> ELSE failedTask
    /\ error' = IF error = <<>> THEN <<msg>> ELSE error
    /\ UNCHANGED <<retries, valRetries, execCount>>

\* step 3c: the output of a task that requires structured output fails
\* validation; re-execute when retry-on-validation-failure is set and the
\* budget is not used up
TaskFailsValidation ==
    /\ pc = "kickoff"
    /\ faults < MaxFaults
    /\ faults' = faults + 1
    /\ \E t \in Running :
          /\ enforce_json_schema(t)
          /\ IF retry_on_schema_fail(t) /\ retries[t] < max_retry_limit(t)
             THEN /\ retries' = [retries EXCEPT ![t] = @ + 1]
                  /\ valRetries' = [valRetries EXCEPT ![t] = @ + 1]
                  /\ execCount' = [execCount EXCEPT ![t] = @ + 1]
                  /\ UNCHANGED <<taskState, failedTask, error>>
             ELSE GiveUp(t, "TaskValidationError")
    /\ UNCHANGED <<inputV, fileV, endV, pc, customer_request, stdinRead,
                   prompted, wcBuilt, kickoffInputs, started>>

\* step 3c, section 7: the execution exceeds max-execution-time; retried up
\* to the task's budget
TaskTimesOut ==
    /\ pc = "kickoff"
    /\ faults < MaxFaults
    /\ faults' = faults + 1
    /\ \E t \in Running :
          IF retries[t] < max_retry_limit(t)
          THEN /\ retries' = [retries EXCEPT ![t] = @ + 1]
               /\ execCount' = [execCount EXCEPT ![t] = @ + 1]
               /\ UNCHANGED <<taskState, failedTask, error, valRetries>>
          ELSE GiveUp(t, "ExecutionTimeoutError")
    /\ UNCHANGED <<inputV, fileV, endV, pc, customer_request, stdinRead,
                   prompted, wcBuilt, kickoffInputs, started>>

LoopEnded == pc = "kickoff" /\ Running = {} /\ Ready = {}

\* step 4 with every task Succeeded: kickoff returns the result
KickoffReturns ==
    /\ LoopEnded
    /\ \A t \in TaskIds : taskState[t] = "Succeeded"
    /\ pc' = "persist"
    /\ UNCHANGED <<inputV, schedV, fileV, endV, customer_request, stdinRead,
                   prompted, wcBuilt, kickoffInputs, error>>

\* step 4 with a task not Succeeded: the failure reaches main() as an exception
KickoffRaises ==
    /\ LoopEnded
    /\ \E t \in TaskIds : taskState[t] # "Succeeded"
    /\ error' = IF error = <<>> THEN <<"UnresolvedInputError">> ELSE error
    /\ pc' = "except"
    /\ UNCHANGED <<inputV, schedV, fileV, endV, customer_request, stdinRead,
                   prompted, wcBuilt, kickoffInputs>>

\* the user interrupts while wc.run(...) is executing
Interrupt ==
    /\ pc = "kickoff"
    /\ error' = <<"KeyboardInterrupt">>
    /\ pc' = "interrupted"
    /\ UNCHANGED <<inputV, schedV, fileV, endV, customer_request, stdinRead,
                   prompted, wcBuilt, kickoffInputs>>

(***************************************************************************)
(* main.py: the handlers and the success path                              *)
(***************************************************************************)
\* main(): except KeyboardInterrupt
HandleInterrupt ==
    /\ pc = "interrupted"
    /\ exitCode' = <<EXIT_INTERRUPT>>
    /\ pc' = "done"
    /\ UNCHANGED <<inputV, schedV, fileV, stdout, raised, customer_request,
                   stdinRead, prompted, wcBuilt, kickoffInputs, error>>

err_payload_ok(e, cr) ==
    [ok |-> TRUE, error |-> e, customer_request |-> cr]

\* main(): err_payload
err_payload(e, cr) ==
    [ok |-> FALSE, error |-> e, customer_request |-> cr]

\* _persist_run_summary: the write fails when artifacts/ does not exist
_persist_run_summary(payload) ==
    /\ summaryWrites' = Append(summaryWrites, payload)
    /\ badWrite' = (badWrite \/ ~dirExists)

\* main(): except Exception
HandleException ==
    /\ pc = "except"
    /\ _persist_run_summary(err_payload(error[1], customer_request))
    /\ exitCode' = <<EXIT_FAILURE>>
    /\ pc' = "done"
    /\ UNCHANGED <<inputV, schedV, stdout, raised, customer_request,
                   stdinRead, prompted, wcBuilt, kickoffInputs, error,
                   dirExists, dirCreated, mainEnsured, artifacts>>

\* Path.resolve(): the absolute path, from the working directory
resolve(path) == <<"cwd", path>>

\* main(): summary
summary(cr, wn, result) ==
    [ok |-> TRUE,
     customer_request |-> cr,
     website_name |-> OrDefault(wn, PLACEHOLDER_NAME),
     artifacts_dir |-> resolve(ARTIFACTS_DIR),
     result |-> result]

\* main(): summary_path = _persist_run_summary(summary)
PersistSummary ==
    /\ pc = "persist"
    /\ _persist_run_summary(summary(customer_request, args.website_name, artifacts))
    /\ pc' = "report"
    /\ UNCHANGED <<inputV, schedV, endV, customer_request, stdinRead, prompted,
                   wcBuilt, kickoffInputs, error, dirExists, dirCreated,
                   mainEnsured, artifacts>>

\* main(): the printing governed by --json, and return 0
Report ==
    /\ pc = "report"
    /\ \E json \in BOOLEAN : stdout' = IF json THEN "json" ELSE "human"
    /\ exitCode' = <<EXIT_OK>>
    /\ pc' = "done"
    /\ UNCHANGED <<inputV, schedV, fileV, raised, customer_request, stdinRead,
                   prompted, wcBuilt, kickoffInputs, error>>

Next ==
    \/ parse_args
    \/ _ensure_artifacts_dir
    \/ ResolveFromFlag
    \/ ResolveFromStdin
    \/ ResolveFromPrompt
    \/ CheckRequest
    \/ Construct
    \/ _validate_crewai_yaml_loaded
    \/ InterruptOutsideTry
    \/ RunCall
    \/ StartTask
    \/ TaskSucceeds
    \/ TaskFailsValidation
    \/ TaskTimesOut
    \/ KickoffReturns
    \/ KickoffRaises
    \/ Interrupt
    \/ HandleInterrupt
    \/ HandleException
    \/ PersistSummary
    \/ Report

Spec == Init /\ [][Next]_vars

\* resolve_customer_request alone, over every short input
NextResolve ==
    \/ parse_args
    \/ _ensure_artifacts_dir
    \/ ResolveFromFlag
    \/ ResolveFromStdin
    \/ ResolveFromPrompt
    \/ CheckRequest

SpecResolve == InitResolve /\ [][NextResolve]_vars

(***************************************************************************)
(* Properties                                                              *)
(***************************************************************************)
\* resolve_customer_request has returned
Resolved == pc \notin {"parse", "ensure", "resolve", "stdin", "prompt"}

\* main() has returned or an exception has left it
Terminated == pc \in {"done", "raised"}

\* the content of artifacts/run_summary.json written by this run
LastSummary == summaryWrites[Len(summaryWrites)]

\* some character of the text is not whitespace
NonBlank(s) == \E i \in 1..Len(s) : ~IsSpace(s[i])

Executed == {t \in TaskIds : execCount[t] > 0}

\* C1: every terminating execution of main() that got a request has persisted
\* a run summary before it returned or raised - on success, on a pipeline
\* exception, on a configuration error before execution, on a user interrupt.
C1_SummaryPersistedOnEveryExit ==
    (Terminated /\ customer_request # <<>>) => summaryWrites # <<>>

\* C2, as claimed: main() returns 0 exactly when the pipeline completed, 1
\* exactly when it raised a non-interrupt failure, 130 exactly when the user
\* interrupted the run, and 2 exactly when no request was given under
\* --no-prompt; nothing else yields 2.
C2_ExitCodesAsClaimed ==
    pc = "done" =>
        /\ exitCode = <<EXIT_OK>> <=> (customer_request # <<>> /\ error = <<>>)
        /\ exitCode = <<EXIT_FAILURE>> <=>
              (error # <<>> /\ error # <<"KeyboardInterrupt">>)
        /\ exitCode = <<EXIT_INTERRUPT>> <=> error = <<"KeyboardInterrupt">>
        /\ exitCode = <<EXIT_NO_INPUT>> <=>
              (args.no_prompt /\ customer_request = <<>>)

\* C2, amended: main() returns 0 exactly when wc.run returned, 1 exactly when
\* wc.run raised an exception other than KeyboardInterrupt, 130 exactly when
\* KeyboardInterrupt was raised during wc.run, and 2 exactly when the resolved
\* request is empty - under --no-prompt, or when the prompt was shown and
\* gave a blank line, end of input or an interrupt.
C2_ExitCodes ==
    pc = "done" =>
        /\ exitCode = <<EXIT_OK>> <=> (customer_request # <<>> /\ error = <<>>)
        /\ exitCode = <<EXIT_FAILURE>> <=>
              (error # <<>> /\ error # <<"KeyboardInterrupt">>)
        /\ exitCode = <<EXIT_INTERRUPT>> <=> error = <<"KeyboardInterrupt">>
        /\ exitCode = <<EXIT_NO_INPUT>> <=> customer_request = <<>>
        /\ exitCode = <<EXIT_NO_INPUT>> =>
              /\ ~(Truthy(args.customer_request) /\ NonBlank(args.customer_request.val))
              /\ args.no_prompt \/ prompted
              /\ prompted => (promptInput.kind # "line" \/ ~NonBlank(promptInput.text))

\* main() returned 2 although --no-prompt was not given
C2_Witness ==
    pc = "done" /\ exitCode = <<EXIT_NO_INPUT>> /\ ~args.no_prompt /\ prompted

\* C3: resolve_customer_request takes a non-blank -r value first; otherwise
\* the piped stdin text when _stdin_text() finds it non-empty (it is trimmed
\* there); otherwise the prompt's answer, and with --no-prompt the empty
\* string without prompting.  A source of lower priority is never consulted
\* once a higher one gave a value.
C3_ResolvePriority ==
    LET flag == args.customer_request
        hasFlag == ~flag.isNone /\ NonBlank(flag.val)
        hasPiped == ~stdin.isatty /\ NonBlank(stdin.data)
    IN  /\ hasFlag => ~stdinRead /\ ~prompted
        /\ hasPiped => ~prompted
        /\ args.no_prompt => ~prompted
        /\ Resolved =>
              IF hasFlag THEN customer_request = strip(flag.val)
              ELSE IF hasPiped
                   THEN /\ customer_request = strip(replace_crlf(stdin.data))
                        /\ stdinRead
              ELSE IF args.no_prompt THEN customer_request = <<>>
              ELSE /\ prompted
                   /\ customer_request =
                         IF promptInput.kind = "line"
                         THEN strip(promptInput.text) ELSE <<>>

\* a -r value of whitespace only is passed over and the piped text is taken
C3_Witness ==
    /\ Resolved
    /\ ~args.customer_request.isNone
    /\ args.customer_request.val # <<>>
    /\ stdinRead
    /\ customer_request = <<"a">>
    /\ ~prompted

\* C4: a run interrupted while the pipeline executes is reported with its own
\* exit code and still persists a partial summary of the tasks completed.
C4_InterruptPersistsPartialSummary ==
    (pc = "done" /\ error = <<"KeyboardInterrupt">>) =>
        /\ exitCode = <<EXIT_INTERRUPT>>
        /\ EXIT_INTERRUPT # EXIT_FAILURE
        /\ summaryWrites # <<>>

\* C5, as claimed: with an empty request under --no-prompt main() returns 2
\* without constructing the crew, executing a task or writing a sink, and
\* creates nothing on disk.
C5_NothingCreatedAsClaimed ==
    (Resolved /\ customer_request = <<>> /\ args.no_prompt) =>
        /\ pc \in {"check", "done"}
        /\ pc = "done" => exitCode = <<EXIT_NO_INPUT>>
        /\ ~wcBuilt
        /\ Executed = {}
        /\ artifacts = {}
        /\ summaryWrites = <<>>
        /\ ~dirCreated

\* C5, amended: with an empty request under --no-prompt main() returns 2
\* without constructing the crew, executing a task or writing a per-task
\* artifact or run_summary.json; the directory artifacts/ has been ensured
\* (created when it was absent) by then.
C5_NoSinkWritten ==
    (Resolved /\ customer_request = <<>> /\ args.no_prompt) =>
        /\ pc \in {"check", "done"}
        /\ pc = "done" => exitCode = <<EXIT_NO_INPUT>>
        /\ ~wcBuilt
        /\ Executed = {}
        /\ artifacts = {}
        /\ summaryWrites = <<>>
        /\ dirExists /\ mainEnsured

\* main() returned 2 under --no-prompt and left a new directory behind
C5_Witness ==
    /\ pc = "done"
    /\ exitCode = <<EXIT_NO_INPUT>>
    /\ args.no_prompt
    /\ dirCreated

\* the tasks that depend on a task, directly or transitively
Dependents(t) == {u \in TaskIds : t \in TransDeps(u)}

C7_DeclaredOrderIsTopological ==
    /\ \A i \in 1..Len(tasks) :
          \A d \in Deps(tasks[i]) : \E j \in 1..(i - 1) : tasks[j] = d
    /\ Cardinality(TaskIds) = Len(tasks)
    /\ {t \in TaskIds : AllExternal(t)} = {"planner_task"}
    /\ Len(started) <= Len(tasks)
    /\ \A i \in 1..Len(started) : started[i] = tasks[i]
    /\ \A t \in Running : \A d \in Deps(t) : taskState[d] = "Succeeded"
    /\ (pc = "kickoff" /\ started = <<>>) => Ready = {"planner_task"}

\* the whole pipeline ran, in declared order
C7_Witness == pc = "persist" /\ started = tasks

\* C8: artifacts/ exists at every write: main() has ensured it before each
\* _persist_run_summary, and WebsiteCreator() has been constructed (ensuring
\* it) before a task writes its output file.
C8_DirExistsAtEveryWrite ==
    /\ ~badWrite
    /\ summaryWrites # <<>> => (mainEnsured /\ dirExists)
    /\ artifacts # {} => (wcBuilt /\ dirExists)

\* a failed run that wrote task outputs and then its summary
C8_Witness ==
    /\ summaryWrites # <<>>
    /\ artifacts # {}
    /\ dirCreated
    /\ exitCode = <<EXIT_FAILURE>>

\* C9: a retry after a validation failure happens only for a task that
\* requires structured output and has retry-on-validation-failure set; the
\* re-executions of a task never exceed its budget (3 for the two developer
\* tasks, 2 for the others); a task that failed validation once and then
\* succeeded has exactly one retry recorded; a task that keeps failing ends
\* Failed with its budget used and no more.
C9_RetriesWithinBudget ==
    \A t \in TaskIds :
        LET budget ==
                IF t \in {"frontend_developer_task", "backend_developer_task"}
                THEN 3 ELSE 2
        IN  /\ valRetries[t] > 0 => (enforce_json_schema(t) /\ retry_on_schema_fail(t))
            /\ valRetries[t] <= retries[t]
            /\ retries[t] <= budget
            /\ execCount[t] = IF taskState[t] \in {"Pending", "Ready"} THEN 0
                              ELSE retries[t] + 1
            /\ taskState[t] = "Failed" => execCount[t] = budget + 1
            /\ t = "team_leader_task" => valRetries[t] = 0

\* planner_task succeeded on its first retry after a validation failure, and
\* team_leader_task used up its budget and failed
C9_Witness ==
    /\ taskState["planner_task"] = "Succeeded"
    /\ valRetries["planner_task"] = 1
    /\ retries["planner_task"] = 1
    /\ execCount["planner_task"] = 2
    /\ taskState["team_leader_task"] = "Failed"
    /\ retries["team_leader_task"] = 2

\* C10: when main() returns 0 the summary it wrote has ok=true with the
\* request, the artifact directory and the website name - the given name or
\* the placeholder, the same name the pipeline was seeded with; when it
\* returns 1 the summary has ok=false with the raw error and the request; a
\* summary with ok=true is never written after a failure.
C10_SummaryAgreesWithExitCode ==
    /\ (pc = "done" /\ exitCode = <<EXIT_OK>>) =>
          /\ Len(summaryWrites) = 1
          /\ LastSummary.ok = TRUE
          /\ LastSummary.customer_request = customer_request
          /\ LastSummary.website_name =
                IF args.website_name.isNone \/ args.website_name.val = <<>>
                THEN <<"Generated Website">> ELSE args.website_name.val
          /\ LastSummary.website_name = kickoffInputs[1].website_name
          /\ LastSummary.artifacts_dir = <<"cwd", "artifacts">>
    /\ (pc = "done" /\ exitCode = <<EXIT_FAILURE>>) =>
          /\ Len(summaryWrites) = 1
          /\ LastSummary.ok = FALSE
          /\ LastSummary.error = error[1]
          /\ LastSummary.customer_request = customer_request
    /\ \A i \in 1..Len(summaryWrites) :
          summaryWrites[i].ok => (error = <<>> /\ failedTask = <<>>)

\* main() returned 0 for a run given the empty website name
C10_Witness ==
    /\ pc = "done"
    /\ exitCode = <<EXIT_OK>>
    /\ args.website_name = Some(<<>>)
    /\ LastSummary.website_name = PLACEHOLDER_NAME

====
